---- MODULE Spec2Model ----
(***************************************************************************)
(* Money-transfer saga of dist-txn: the Transaction coordinator            *)
(* (transfers + outbox + timeout scanner), the Wallet ledger (wallets +    *)
(* ledger entries + outbox + dead letter queue), the outbox publishers and *)
(* an at-least-once broker between the two services.                       *)
(***************************************************************************)
EXTENDS Integers, Sequences, FiniteSets, Bags, TLC

VARIABLES
    now,          \* wall clock (ms) read by `new Date()`
    wallets,      \* table wallets: walletId -> balance
    ledger,       \* table wallet_ledger_entries: bag of rows (entryId is fresh per row)
    walletOutbox, \* table outbox of the wallet service, in insertion order
    dlq,          \* table dead_letter_queue, in insertion order
    transfers,    \* table transfers: transferId -> row
    txOutbox,     \* table outbox of the transaction service, in insertion order
    broker,       \* messages emitted to Kafka (retained by the log)
    consumed,     \* messages whose wallet-service handler has returned
    applying,     \* updateBalanceWithLedger transactions past the existence check
    stuck,        \* transfers returned by findStuckTransfers and not yet recovered
    storeFault,   \* the wallet store currently fails write transactions
    outages,      \* number of store fault windows so far
    redeliveries, \* number of repeated deliveries to the wallet service so far
    outboxRows,   \* one outbox table, row by row, with created_at and published_at
    runs,         \* the processOutbox transaction of each publisher instance
    wire,         \* the emissions that reached the broker, in order
    clock,        \* the wall clock read by new Date() of the outbox code
    response      \* the body of the last answer of POST /admin/dlq/:id/replay

vars == <<now, wallets, ledger, walletOutbox, dlq, transfers, txOutbox,
          broker, consumed, applying, stuck, storeFault, outages, redeliveries,
          outboxRows, runs, wire, clock, response>>

(* The publisher seen step by step (see the outbox table section). *)
pub == <<outboxRows, runs, wire, clock>>

env == <<storeFault, outages, redeliveries>>

walletDb == <<wallets, ledger, walletOutbox, dlq>>
txDb     == <<transfers, txOutbox>>

----------------------------------------------------------------------------
(* Bounds of the model *)

MaxClockSteps == 1
MaxInflight == 2
MaxRedeliveries == 1
MaxOutages == 1

(* Program constants *)

DEFAULT_SAGA_TIMEOUT_MS == 60000
OUTBOX_BATCH_SIZE == 100
STUCK_LIMIT == 100
RETRY_MAX_ATTEMPTS == 3

(* The clock advances in steps just longer than the saga timeout. *)
ClockStep == DEFAULT_SAGA_TIMEOUT_MS + 1

(* Transfer ids uuidv7() hands out, in order: one saga under the full       *)
(* environment, or a pair of sagas competing for the same wallets.          *)
TransferIds == <<"t1">>
PairIds == <<"t1", "t2">>

(* Seeded wallets (test fixtures seed balances directly) and the id of a   *)
(* wallet that does not exist.                                             *)
SeedBalance == [w \in {"A", "B"} |-> IF w = "A" THEN 1 ELSE 0]
WalletIds == {"A", "B", "X"}
Amounts == {1}

----------------------------------------------------------------------------
(* Values *)

NULL == <<>>
Some(x) == <<x>>

(* A column holding `new Date()`; only its being set is ever read.           *)
SET == Some("date")

PENDING == "PENDING"
DEBITED == "DEBITED"
COMPLETED == "COMPLETED"
FAILED == "FAILED"
TransferStatus == {PENDING, DEBITED, COMPLETED, FAILED}

DEBIT == "DEBIT"
CREDIT == "CREDIT"
REFUND == "REFUND"
LedgerEntryType == {DEBIT, CREDIT, REFUND}

DLQ_PENDING == "PENDING"
DLQ_PROCESSED == "PROCESSED"
DLQ_FAILED == "FAILED"

TRANSFER_INITIATED == "TransferInitiated"
TRANSFER_COMPLETED == "TransferCompleted"
TRANSFER_FAILED == "TransferFailed"
WALLET_DEBITED == "WalletDebited"
WALLET_DEBIT_FAILED == "WalletDebitFailed"
WALLET_CREDITED == "WalletCredited"
WALLET_CREDIT_FAILED == "WalletCreditFailed"
WALLET_REFUNDED == "WalletRefunded"

OUTBOX_EVENT_TO_TOPIC ==
    [e \in {TRANSFER_INITIATED, TRANSFER_COMPLETED, TRANSFER_FAILED, WALLET_DEBITED,
            WALLET_DEBIT_FAILED, WALLET_CREDITED, WALLET_CREDIT_FAILED, WALLET_REFUNDED} |->
        CASE e = TRANSFER_INITIATED -> "transfer.initiated"
          [] e = TRANSFER_COMPLETED -> "transfer.completed"
          [] e = TRANSFER_FAILED -> "transfer.failed"
          [] e = WALLET_DEBITED -> "wallet.debited"
          [] e = WALLET_DEBIT_FAILED -> "wallet.debit-failed"
          [] e = WALLET_CREDITED -> "wallet.credited"
          [] e = WALLET_CREDIT_FAILED -> "wallet.credit-failed"
          [] e = WALLET_REFUNDED -> "wallet.refunded"]

AGG_TRANSFER == "Transfer"
AGG_WALLET == "Wallet"

(* uuidv5("refund:" + transferId, namespace): a deterministic name-based id. *)
generateRefundTransactionId(transferId) == "refund:" \o transferId

(* Event payloads; fields an event type does not carry are "-" / 0. *)
Event(transferId, walletId, senderWalletId, receiverWalletId, amount, reason) ==
    [transferId |-> transferId, walletId |-> walletId,
     senderWalletId |-> senderWalletId, receiverWalletId |-> receiverWalletId,
     amount |-> amount, reason |-> reason]

TransferInitiatedEvent(t, s, r, a) == Event(t, "-", s, r, a, "-")
WalletDebitedEvent(t, w, a, r) == Event(t, w, "-", r, a, "-")
WalletDebitFailedEvent(t, w, reason) == Event(t, w, "-", "-", 0, reason)
WalletCreditedEvent(t, w, a) == Event(t, w, "-", "-", a, "-")
WalletCreditFailedEvent(t, w, reason, s, a) == Event(t, w, s, "-", a, reason)
WalletRefundedEvent(t, w, a) == Event(t, w, "-", "-", a, "-")
TransferCompletedEvent(t) == Event(t, "-", "-", "-", 0, "-")
TransferFailedEvent(t, reason) == Event(t, "-", "-", "-", 0, reason)

(* outboxRepo.create({... createdAt: new Date(), publishedAt: null}); the   *)
(* position of a row in its table is its created_at order.                 *)
OutboxRow(aggregateType, aggregateId, eventType, payload) ==
    [aggregateType |-> aggregateType, aggregateId |-> aggregateId,
     eventType |-> eventType, payload |-> payload, publishedAt |-> NULL]

(* kafkaClient.emit(topic, { key, value }) *)
Message(topic, key, value) == [topic |-> topic, key |-> key, value |-> value]

----------------------------------------------------------------------------
(* Initial state: empty stores, seeded wallets, clock at 0. *)

(* The publisher instances and a processOutbox that is not running. *)
Publishers == {"publisher1", "publisher2"}
IdleRun == [phase |-> "idle", entries |-> <<>>, next |-> 1, publishedIds |-> {}]

Init ==
    /\ now = 0
    /\ wallets = SeedBalance
    /\ ledger = EmptyBag
    /\ walletOutbox = <<>>
    /\ dlq = <<>>
    /\ transfers = [t \in {} |-> 0]
    /\ txOutbox = <<>>
    /\ broker = {}
    /\ consumed = {}
    /\ applying = EmptyBag
    /\ stuck = <<>>
    /\ storeFault = FALSE
    /\ outages = 0
    /\ redeliveries = 0
    /\ outboxRows = <<>>
    /\ runs = [p \in Publishers |-> IdleRun]
    /\ wire = <<>>
    /\ clock = 0
    /\ response = NULL

(* Time passes. *)
AdvanceClock ==
    /\ now < MaxClockSteps * ClockStep
    /\ now' = now + ClockStep
    /\ UNCHANGED <<pub, response, wallets, ledger, walletOutbox, dlq, transfers, txOutbox,
                   broker, consumed, applying, stuck, env>>

(* A window in which the wallet store fails every write transaction         *)
(* (lock timeout, serialization failure, lost connection).                  *)
StoreFaultBegins ==
    /\ ~storeFault
    /\ outages < MaxOutages
    /\ storeFault' = TRUE
    /\ outages' = outages + 1
    /\ UNCHANGED <<pub, response, now, walletDb, txDb, broker, consumed, applying, stuck, redeliveries>>

StoreFaultEnds ==
    /\ storeFault
    /\ storeFault' = FALSE
    /\ UNCHANGED <<pub, response, now, walletDb, txDb, broker, consumed, applying, stuck,
                   outages, redeliveries>>

----------------------------------------------------------------------------
(* TransferService.createTransfer: transfer row and outbox row in one       *)
(* transaction.                                                            *)

TimeoutAt(createdAt) == createdAt + DEFAULT_SAGA_TIMEOUT_MS

NewTransfer(senderWalletId, receiverWalletId, amount) ==
    [senderWalletId |-> senderWalletId, receiverWalletId |-> receiverWalletId,
     amount |-> amount, status |-> PENDING, failureReason |-> NULL,
     timeoutAt |-> TimeoutAt(now), createdAt |-> now]

(* A createTransfer that writes no outbox entry. *)
TransferWithoutOutbox(transferId, senderWalletId, receiverWalletId, amount) == <<>>

CreateTransferOutbox(transferId, senderWalletId, receiverWalletId, amount) ==
    <<OutboxRow(AGG_TRANSFER, transferId, TRANSFER_INITIATED,
                TransferInitiatedEvent(transferId, senderWalletId, receiverWalletId, amount))>>

createTransfer(transferId, senderWalletId, receiverWalletId, amount) ==
    /\ transferId \notin DOMAIN transfers
    /\ transfers' = [t \in DOMAIN transfers \cup {transferId} |->
                        IF t = transferId
                        THEN NewTransfer(senderWalletId, receiverWalletId, amount)
                        ELSE transfers[t]]
    /\ txOutbox' = txOutbox \o
                     CreateTransferOutbox(transferId, senderWalletId, receiverWalletId, amount)
    /\ UNCHANGED <<pub, response, now, walletDb, broker, consumed, applying, stuck, env>>

(* The request validator: sender and receiver must be different. *)
IsDifferentWallets(senderWalletId, receiverWalletId) ==
    senderWalletId # receiverWalletId

(* POST /transfers with a valid body; uuidv7() is the next id of `ids`. *)
CreateTransferFrom(ids) ==
    /\ Cardinality(DOMAIN transfers) < Len(ids)
    /\ \E s \in WalletIds, r \in WalletIds, a \in Amounts :
            /\ IsDifferentWallets(s, r)
            /\ createTransfer(ids[Cardinality(DOMAIN transfers) + 1], s, r, a)

CreateTransfer == CreateTransferFrom(TransferIds)

CreateTransferOfPair == CreateTransferFrom(PairIds)

----------------------------------------------------------------------------
(* OutboxPublisherService.processOutbox: one polling transaction.           *)

Unpublished(outbox) == {i \in 1..Len(outbox) : outbox[i].publishedAt = NULL}

(* WHERE published_at IS NULL ORDER BY created_at ASC LIMIT batch *)
SelectBatch(outbox) ==
    {i \in Unpublished(outbox) :
        Cardinality({j \in Unpublished(outbox) : j < i}) < OUTBOX_BATCH_SIZE}

(* publishEntry: topic from the event type, key = aggregateId *)
publishEntry(entry) ==
    Message(OUTBOX_EVENT_TO_TOPIC[entry.eventType], entry.aggregateId, entry.payload)

(* A publisher that never records what it has published. *)
MarkNothingPublished(outbox, publishedIds) == outbox

(* UPDATE outbox SET published_at = now WHERE id IN (publishedIds) *)
MarkPublished(outbox, publishedIds) ==
    [i \in 1..Len(outbox) |->
        IF i \in publishedIds
        THEN [outbox[i] EXCEPT !.publishedAt = SET]
        ELSE outbox[i]]

(* publishedIds: the selected entries whose publish call did not throw. *)
PublishTxOutbox ==
    /\ SelectBatch(txOutbox) # {}
    /\ \E publishedIds \in SUBSET SelectBatch(txOutbox) :
        /\ broker' = broker \cup {publishEntry(txOutbox[i]) : i \in publishedIds}
        /\ txOutbox' = MarkPublished(txOutbox, publishedIds)
    /\ UNCHANGED <<pub, response, now, walletDb, transfers, consumed, applying, stuck, env>>

PublishWalletOutbox ==
    /\ SelectBatch(walletOutbox) # {}
    /\ \E publishedIds \in SUBSET SelectBatch(walletOutbox) :
        /\ broker' = broker \cup {publishEntry(walletOutbox[i]) : i \in publishedIds}
        /\ walletOutbox' = MarkPublished(walletOutbox, publishedIds)
    /\ UNCHANGED <<pub, response, now, wallets, ledger, dlq, txDb, consumed, applying, stuck, env>>

----------------------------------------------------------------------------
(* WalletRepositoryImpl.updateBalanceWithLedger                             *)

LedgerRow(walletId, transactionId, type, amount) ==
    [walletId |-> walletId, transactionId |-> transactionId,
     type |-> type, amount |-> amount]

(* A lookup that never finds the entry. *)
NoExistingEntries(walletId, transactionId) == {}

(* ledgerRepo.findOne({ where: { walletId, transactionId } }) *)
ExistingEntries(walletId, transactionId) ==
    {e \in BagToSet(ledger) : e.walletId = walletId /\ e.transactionId = transactionId}

(* A WHERE clause that tests the wallet id only. *)
WhereMatchesWalletOnly(walletId, amount, type) == walletId \in DOMAIN wallets

(* WHERE wallet_id = :walletId [AND balance >= :amount]; evaluated under the *)
(* row lock of the UPDATE.                                                   *)
WhereMatches(walletId, amount, type) ==
    /\ walletId \in DOMAIN wallets
    /\ type = DEBIT => wallets[walletId] >= amount

(* An UPDATE that adds the amount whatever the entry type. *)
NewBalanceAlwaysAdds(balance, amount, type) == balance + amount

(* SET balance = balance -/+ :amountValue *)
NewBalance(balance, amount, type) ==
    IF type = DEBIT THEN balance - amount ELSE balance + amount

(* @Check('"balance" >= 0') of the wallets table *)
CheckRejects(balance) == ~(balance >= 0)

NoError == ""
TransientError == "Connection terminated unexpectedly"
CheckViolation == "new row violates check constraint"
UniqueViolation == "duplicate key value violates unique constraint"

(* A ledger table without the unique index. *)
NoUniqueIndex(walletId, transactionId) == FALSE

(* The unique index on (wallet_id, transaction_id) rejects a second row. *)
UniqueIndexRejects(walletId, transactionId) ==
    ExistingEntries(walletId, transactionId) # {}

(* A store that guards no balance: the UPDATE matches every existing wallet *)
(* and the table has no CHECK.                                               *)
ApplyErrorUnguarded(walletId, transactionId, amount, type) ==
    IF walletId \notin DOMAIN wallets
    THEN "Wallet not found: " \o walletId
    ELSE IF UniqueIndexRejects(walletId, transactionId)
         THEN UniqueViolation
         ELSE NoError

(* The error the transaction body throws after the existence check, if any: *)
(* of the UPDATE (no row matched, or the CHECK), else of the ledger INSERT.  *)
ApplyError(walletId, transactionId, amount, type) ==
    IF ~WhereMatches(walletId, amount, type)
    THEN IF walletId \notin DOMAIN wallets
         THEN "Wallet not found: " \o walletId
         ELSE "Insufficient balance: current=" \o ToString(wallets[walletId])
                \o ", required=" \o ToString(amount)
    ELSE IF CheckRejects(NewBalance(wallets[walletId], amount, type))
         THEN CheckViolation
         ELSE IF UniqueIndexRejects(walletId, transactionId)
              THEN UniqueViolation
              ELSE NoError

(* Rows after a committed apply. *)
WalletsAfter(walletId, amount, type) ==
    [wallets EXCEPT ![walletId] = NewBalance(wallets[walletId], amount, type)]

LedgerAfter(walletId, transactionId, amount, type) ==
    ledger (+) SetToBag({LedgerRow(walletId, transactionId, type, amount)})

----------------------------------------------------------------------------
(* Wallet service handlers. A handler run is split at the existence check  *)
(* of updateBalanceWithLedger: `applying` holds the runs that found no      *)
(* entry and have not yet executed the UPDATE.                              *)

H_DEBIT == "handleTransferInitiated"
H_CREDIT == "handleWalletDebited"
H_REFUND == "handleWalletCreditFailed"
H_REPLAY == "replayCreditFailedRefund"

(* Arguments each handler passes to updateBalanceWithLedger. *)
ApplyWallet(h, event) ==
    IF h = H_CREDIT THEN event.receiverWalletId ELSE event.senderWalletId

(* A replay that derives a transaction id of its own. *)
ApplyTransactionIdPerPath(h, event) ==
    CASE h = H_REFUND -> generateRefundTransactionId(event.transferId)
      [] h = H_REPLAY -> "replay:" \o event.transferId
      [] OTHER -> event.transferId

ApplyTransactionId(h, event) ==
    IF h \in {H_REFUND, H_REPLAY}
    THEN generateRefundTransactionId(event.transferId)
    ELSE event.transferId

ApplyType(h) ==
    CASE h = H_DEBIT -> DEBIT
      [] h = H_CREDIT -> CREDIT
      [] h = H_REFUND -> REFUND
      [] h = H_REPLAY -> REFUND

(* The outbox entry passed to updateBalanceWithLedger (none on DLQ replay). *)
ApplyOutbox(h, event) ==
    CASE h = H_DEBIT ->
            <<OutboxRow(AGG_WALLET, event.transferId, WALLET_DEBITED,
                WalletDebitedEvent(event.transferId, event.senderWalletId,
                                   event.amount, event.receiverWalletId))>>
      [] h = H_CREDIT ->
            <<OutboxRow(AGG_WALLET, event.transferId, WALLET_CREDITED,
                WalletCreditedEvent(event.transferId, event.receiverWalletId,
                                    event.amount))>>
      [] h = H_REFUND ->
            <<OutboxRow(AGG_WALLET, event.transferId, WALLET_REFUNDED,
                WalletRefundedEvent(event.transferId, event.senderWalletId,
                                    event.amount))>>
      [] h = H_REPLAY -> <<>>

(* The handler's topic. *)
HandlerTopic(h) ==
    CASE h = H_DEBIT -> "transfer.initiated"
      [] h = H_CREDIT -> "wallet.debited"
      [] h = H_REFUND -> "wallet.credit-failed"

(* A handler run past the existence check. `source` is the broker message   *)
(* (or the replay request of a dead letter), `retries` what is left of      *)
(* maxAttempts, `handledBefore` whether the wallet service had already      *)
(* handled the message when this run was given it.                          *)
Run(h, event, source, retries, handledBefore) ==
    [handler |-> h, event |-> event, source |-> source, retries |-> retries,
     handledBefore |-> handledBefore]

(* The request POST /admin/dlq/:id/replay as the source of a run. *)
ReplayRequest(id) == Message("admin/dlq/replay", ToString(id), dlq[id].originalPayload)

InFlight(m) == \E r \in BagToSet(applying) : r.source = m

Handled(m) == m \in consumed

(* A delivery of a message this group has already been given. *)
IsRedelivery(m) == Handled(m) \/ InFlight(m)


(* The existence check of updateBalanceWithLedger at the start of a run:   *)
(* an existing entry returns isDuplicate and the handler is done.           *)
Deliver(h, m) ==
    /\ m \in broker
    /\ m.topic = HandlerTopic(h)
    /\ BagCardinality(applying) < MaxInflight
    /\ IsRedelivery(m) => redeliveries < MaxRedeliveries
    /\ redeliveries' = IF IsRedelivery(m) THEN redeliveries + 1 ELSE redeliveries
    /\ IF ExistingEntries(ApplyWallet(h, m.value), ApplyTransactionId(h, m.value)) # {}
       THEN /\ consumed' = consumed \cup {m}
            /\ UNCHANGED applying
       ELSE /\ applying' = applying (+)
                  SetToBag({Run(h, m.value, m,
                                IF h = H_REFUND THEN RETRY_MAX_ATTEMPTS ELSE 0,
                                Handled(m))})
            /\ UNCHANGED consumed
    /\ UNCHANGED <<pub, response, now, walletDb, txDb, broker, stuck, storeFault, outages>>

WalletHandleTransferInitiated == \E m \in broker : Deliver(H_DEBIT, m)
WalletHandleWalletDebited == \E m \in broker : Deliver(H_CREDIT, m)
WalletHandleWalletCreditFailed == \E m \in broker : Deliver(H_REFUND, m)

(* The bodies DlqController.replay answers with. *)
Reply(success, message) == Some([success |-> success, message |-> message])
AlreadyProcessed == Reply(TRUE, "Entry already processed")
ReplaySuccessful == Reply(TRUE, "Replay successful")
ReplayFailed(errorMessage) == Reply(FALSE, "Replay failed: " \o errorMessage)

(* A markProcessed that does not record when the entry was processed. *)
markProcessedWithoutDate(id) == [dlq EXCEPT ![id].status = DLQ_PROCESSED]

(* DlqService.markProcessed / markFailed *)
markProcessed(id) == [dlq EXCEPT ![id].status = DLQ_PROCESSED, ![id].processedAt = SET]
markFailed(id) == [dlq EXCEPT ![id].status = DLQ_FAILED]

DlqIdOf(r) == CHOOSE i \in 1..Len(dlq) : ReplayRequest(i) = r.source

(* kafkaProducer.publishWalletRefunded(refundedEvent) of the replay *)
ReplayRefundedMessage(event) ==
    Message("wallet.refunded", event.transferId,
            WalletRefundedEvent(event.transferId, event.senderWalletId, event.amount))

(* The UPDATE, the ledger insert and the outbox insert commit. *)
ApplyCommits(r) ==
    LET w == ApplyWallet(r.handler, r.event)
        x == ApplyTransactionId(r.handler, r.event)
        ty == ApplyType(r.handler)
    IN
    /\ BagIn(r, applying)
    /\ ~storeFault
    /\ ApplyError(w, x, r.event.amount, ty) = NoError
    /\ wallets' = WalletsAfter(w, r.event.amount, ty)
    /\ ledger' = LedgerAfter(w, x, r.event.amount, ty)
    /\ walletOutbox' = walletOutbox \o ApplyOutbox(r.handler, r.event)
    /\ applying' = applying (-) SetToBag({r})
    /\ IF r.handler = H_REPLAY
       THEN /\ broker' = broker \cup {ReplayRefundedMessage(r.event)}
            /\ dlq' = markProcessed(DlqIdOf(r))
            /\ response' = ReplaySuccessful
            /\ UNCHANGED consumed
       ELSE /\ consumed' = consumed \cup {r.source}
            /\ UNCHANGED <<broker, dlq, response>>
    /\ UNCHANGED <<pub, now, txDb, stuck, env>>

ApplyCommit == \E r \in BagToSet(applying) : ApplyCommits(r)

(* A catch block of the debit handler that reports a failed credit. *)
FailureOutboxAsCreditFailed(h, event, error) ==
    IF h = H_DEBIT
    THEN <<OutboxRow(AGG_WALLET, event.transferId, WALLET_CREDIT_FAILED,
              WalletCreditFailedEvent(event.transferId, event.receiverWalletId, error,
                                      event.senderWalletId, event.amount))>>
    ELSE <<OutboxRow(AGG_WALLET, event.transferId, WALLET_CREDIT_FAILED,
              WalletCreditFailedEvent(event.transferId, event.receiverWalletId, error,
                                      event.walletId, event.amount))>>

(* writeOutboxEntry of the catch block of the debit and credit handlers *)
FailureOutbox(h, event, error) ==
    IF h = H_DEBIT
    THEN <<OutboxRow(AGG_WALLET, event.transferId, WALLET_DEBIT_FAILED,
              WalletDebitFailedEvent(event.transferId, event.senderWalletId, error))>>
    ELSE <<OutboxRow(AGG_WALLET, event.transferId, WALLET_CREDIT_FAILED,
              WalletCreditFailedEvent(event.transferId, event.receiverWalletId, error,
                                      event.walletId, event.amount))>>

(* A dead letter that records the number of calls made (the first call and  *)
(* its retries) instead of the configured retry count.                      *)
routeToDlqCountingCalls(topic, payload, error, attemptCount) ==
    dlq \o <<[originalTopic |-> topic, originalPayload |-> payload,
              errorMessage |-> error, attemptCount |-> attemptCount + 1,
              status |-> DLQ_PENDING, processedAt |-> NULL]>>

(* DlqService.routeToDlq *)
routeToDlq(topic, payload, error, attemptCount) ==
    dlq \o <<[originalTopic |-> topic, originalPayload |-> payload,
              errorMessage |-> error, attemptCount |-> attemptCount,
              status |-> DLQ_PENDING, processedAt |-> NULL]>>

(* What the transaction of run r throws now: the store fault, or the error *)
(* of the transaction body.                                                 *)
ThrownErrors(r) ==
    IF storeFault
    THEN {TransientError}
    ELSE {ApplyError(ApplyWallet(r.handler, r.event), ApplyTransactionId(r.handler, r.event),
                     r.event.amount, ApplyType(r.handler))} \ {NoError}

(* The transaction rolls back and throws `error`; the handler's catch runs. *)
(* @Retryable: a failed call is repeated while --maxAttempts >= 0.          *)
ApplyThrows(r, error) ==
    /\ BagIn(r, applying)
    /\ error \in ThrownErrors(r)
    /\ CASE r.handler \in {H_DEBIT, H_CREDIT} ->
                /\ walletOutbox' = walletOutbox \o FailureOutbox(r.handler, r.event, error)
                /\ applying' = applying (-) SetToBag({r})
                /\ consumed' = consumed \cup {r.source}
                /\ UNCHANGED <<dlq, response>>
         [] r.handler = H_REFUND /\ r.retries - 1 < 0 ->
                /\ dlq' = routeToDlq("wallet.credit-failed", r.event, error, RETRY_MAX_ATTEMPTS)
                /\ applying' = applying (-) SetToBag({r})
                /\ consumed' = consumed \cup {r.source}
                /\ UNCHANGED <<walletOutbox, response>>
         [] r.handler = H_REFUND /\ r.retries - 1 >= 0 ->
                /\ IF ExistingEntries(ApplyWallet(r.handler, r.event),
                                      ApplyTransactionId(r.handler, r.event)) # {}
                   THEN /\ applying' = applying (-) SetToBag({r})
                        /\ consumed' = consumed \cup {r.source}
                   ELSE /\ applying' = (applying (-) SetToBag({r})) (+)
                                SetToBag({[r EXCEPT !.retries = r.retries - 1]})
                        /\ UNCHANGED consumed
                /\ UNCHANGED <<walletOutbox, dlq, response>>
         [] r.handler = H_REPLAY ->
                /\ dlq' = markFailed(DlqIdOf(r))
                /\ response' = ReplayFailed(error)
                /\ applying' = applying (-) SetToBag({r})
                /\ UNCHANGED <<walletOutbox, consumed>>
    /\ UNCHANGED <<pub, now, wallets, ledger, txDb, broker, stuck, env>>

ApplyThrow ==
    \E r \in BagToSet(applying) : \E error \in ThrownErrors(r) : ApplyThrows(r, error)

(* DlqController.replay up to the existence check of the refund: an entry   *)
(* already PROCESSED is answered at once, handleReplay throws for a topic   *)
(* other than wallet.credit-failed, and a refund that finds its ledger      *)
(* entry returns as a duplicate.                                            *)
replay(id) ==
    LET event == dlq[id].originalPayload IN
    /\ IF dlq[id].status = DLQ_PROCESSED
       THEN /\ response' = AlreadyProcessed
            /\ UNCHANGED <<broker, dlq, applying>>
       ELSE IF dlq[id].originalTopic # "wallet.credit-failed"
       THEN /\ dlq' = markFailed(id)
            /\ response' = ReplayFailed("Unsupported topic for replay: "
                                          \o dlq[id].originalTopic)
            /\ UNCHANGED <<broker, applying>>
       ELSE IF ExistingEntries(ApplyWallet(H_REPLAY, event),
                               ApplyTransactionId(H_REPLAY, event)) # {}
       THEN /\ broker' = broker \cup {ReplayRefundedMessage(event)}
            /\ dlq' = markProcessed(id)
            /\ response' = ReplaySuccessful
            /\ UNCHANGED applying
       ELSE /\ BagCardinality(applying) < MaxInflight
            /\ applying' = applying (+)
                  SetToBag({Run(H_REPLAY, event, ReplayRequest(id), 0, FALSE)})
            /\ UNCHANGED <<broker, dlq, response>>
    /\ UNCHANGED <<pub, now, wallets, ledger, walletOutbox, txDb, consumed, stuck, env>>

DlqReplay == \E id \in 1..Len(dlq) : replay(id)

----------------------------------------------------------------------------
(* Transaction service: conditional status update and event handlers.      *)

(* An update that does not test the status it expects. *)
AffectedAnyStatus(transferId, expectedStatus) == transferId \in DOMAIN transfers

(* UPDATE transfers SET status, failure_reason WHERE transfer_id = :id AND  *)
(* status = :expectedStatus -- the rows it affects.                         *)
Affected(transferId, expectedStatus) ==
    /\ transferId \in DOMAIN transfers
    /\ transfers[transferId].status = expectedStatus

SetStatus(transferId, newStatus, failureReason) ==
    [transfers EXCEPT ![transferId].status = newStatus,
                      ![transferId].failureReason = failureReason]

(* A status update that does not test the status it expects. *)
updateTransferStatusAnyStatus(transferId, expectedStatus, newStatus) ==
    /\ transfers' = IF AffectedAnyStatus(transferId, expectedStatus)
                    THEN SetStatus(transferId, newStatus, NULL)
                    ELSE transfers
    /\ UNCHANGED txOutbox

(* KafkaEventHandler.updateTransferStatus: no outbox entry *)
updateTransferStatus(transferId, expectedStatus, newStatus) ==
    /\ transfers' = IF Affected(transferId, expectedStatus)
                    THEN SetStatus(transferId, newStatus, NULL)
                    ELSE transfers
    /\ UNCHANGED txOutbox

(* An update whose outbox entry is written whatever the update affected. *)
updateStatusAlwaysOutbox(transferId, expectedStatus, newStatus, failureReason, eventType, eventPayload) ==
    /\ transfers' = IF Affected(transferId, expectedStatus)
                    THEN SetStatus(transferId, newStatus, failureReason)
                    ELSE transfers
    /\ txOutbox' = txOutbox \o
           <<OutboxRow(AGG_TRANSFER, transferId, eventType, eventPayload)>>

(* KafkaEventHandler.updateStatusWithOutbox: the outbox entry is written    *)
(* only if the update affected a row, in the same transaction.              *)
updateStatusWithOutbox(transferId, expectedStatus, newStatus, failureReason, eventType, eventPayload) ==
    IF Affected(transferId, expectedStatus)
    THEN /\ transfers' = SetStatus(transferId, newStatus, failureReason)
         /\ txOutbox' = txOutbox \o
                <<OutboxRow(AGG_TRANSFER, transferId, eventType, eventPayload)>>
    ELSE UNCHANGED <<transfers, txOutbox>>

(* A delivery to the transaction service: any message of the topic, any     *)
(* number of times and in any order across topics.                          *)
TxReceive(m, topic) ==
    /\ m \in broker
    /\ m.topic = topic
    /\ UNCHANGED <<pub, response, now, walletDb, broker, consumed, applying, stuck, env>>

TxHandleWalletDebited ==
    \E m \in broker :
        /\ TxReceive(m, "wallet.debited")
        /\ updateTransferStatus(m.value.transferId, PENDING, DEBITED)

TxHandleWalletDebitFailed ==
    \E m \in broker :
        /\ TxReceive(m, "wallet.debit-failed")
        /\ updateStatusWithOutbox(m.value.transferId, PENDING, FAILED,
                Some(m.value.reason), TRANSFER_FAILED,
                TransferFailedEvent(m.value.transferId, m.value.reason))

(* A credited handler that expects the transfer to be PENDING. *)
TxHandleWalletCreditedFromPending ==
    \E m \in broker :
        /\ TxReceive(m, "wallet.credited")
        /\ updateStatusWithOutbox(m.value.transferId, PENDING, COMPLETED,
                NULL, TRANSFER_COMPLETED, TransferCompletedEvent(m.value.transferId))

TxHandleWalletCredited ==
    \E m \in broker :
        /\ TxReceive(m, "wallet.credited")
        /\ updateStatusWithOutbox(m.value.transferId, DEBITED, COMPLETED,
                NULL, TRANSFER_COMPLETED, TransferCompletedEvent(m.value.transferId))

TxHandleWalletCreditFailed ==
    \E m \in broker :
        /\ TxReceive(m, "wallet.credit-failed")
        /\ updateStatusWithOutbox(m.value.transferId, DEBITED, FAILED,
                Some(m.value.reason), TRANSFER_FAILED,
                TransferFailedEvent(m.value.transferId, m.value.reason))

(* Logged for audit only. *)
TxHandleWalletRefunded ==
    \E m \in broker :
        /\ TxReceive(m, "wallet.refunded")
        /\ UNCHANGED <<transfers, txOutbox>>

----------------------------------------------------------------------------
(* SagaTimeoutService: the scan and the recovery of each stuck transfer.    *)

STUCK_PENDING_REASON == "Saga timeout: debit not processed within timeout period"
STUCK_DEBITED_REASON == "Saga timeout: credit not processed within timeout period"
COMPENSATION_REASON == "Saga timeout: triggering compensation"

(* A selection of PENDING transfers only. *)
IsStuckPendingOnly(t) ==
    /\ transfers[t].status = PENDING
    /\ transfers[t].timeoutAt < now

(* A selection that does not look at timeout_at. *)
IsStuckWhateverTimeout(t) == transfers[t].status \in {PENDING, DEBITED}

(* WHERE status IN (PENDING, DEBITED) AND timeout_at < now *)
IsStuck(t) ==
    /\ transfers[t].status \in {PENDING, DEBITED}
    /\ transfers[t].timeoutAt < now

(* ORDER BY timeout_at ASC, LIMIT: the possible result lists, each entry a  *)
(* snapshot of the row as read.                                             *)
findStuckTransfers ==
    LET S == {t \in DOMAIN transfers : IsStuck(t)}
        n == IF Cardinality(S) < STUCK_LIMIT THEN Cardinality(S) ELSE STUCK_LIMIT
    IN {[i \in 1..n |-> [transferId |-> f[i], transfer |-> transfers[f[i]]]] :
           f \in {g \in [1..n -> S] :
                    /\ \A i, j \in 1..n : i < j =>
                          /\ g[i] # g[j]
                          /\ transfers[g[i]].timeoutAt <= transfers[g[j]].timeoutAt
                    /\ \A t \in S : (\E i \in 1..n : g[i] = t) \/
                          \A i \in 1..n : transfers[g[i]].timeoutAt <= transfers[t].timeoutAt}}

(* handleStuckTransfers: the scan; nothing to do when the list is empty. *)
ScanStuckTransfers ==
    /\ stuck = <<>>
    /\ \E found \in findStuckTransfers :
        /\ found # <<>>
        /\ stuck' = found
    /\ UNCHANGED <<pub, response, now, walletDb, txDb, broker, consumed, applying, env>>

(* A recovery of a PENDING transfer that stores no reason. *)
handleStuckPendingWithoutReason(transferId) ==
    updateStatusWithOutbox(transferId, PENDING, FAILED, NULL,
        TRANSFER_FAILED, TransferFailedEvent(transferId, STUCK_PENDING_REASON))

handleStuckPending(transferId) ==
    updateStatusWithOutbox(transferId, PENDING, FAILED, Some(STUCK_PENDING_REASON),
        TRANSFER_FAILED, TransferFailedEvent(transferId, STUCK_PENDING_REASON))

(* A recovery of a DEBITED transfer that asks for no compensation. *)
handleStuckDebitedWithoutCompensation(transferId, senderWalletId, receiverWalletId, amount) ==
    updateStatusWithOutbox(transferId, DEBITED, FAILED, Some(STUCK_DEBITED_REASON),
        TRANSFER_FAILED, TransferFailedEvent(transferId, STUCK_DEBITED_REASON))

handleStuckDebited(transferId, senderWalletId, receiverWalletId, amount) ==
    IF Affected(transferId, DEBITED)
    THEN /\ transfers' = SetStatus(transferId, FAILED, Some(STUCK_DEBITED_REASON))
         /\ txOutbox' = txOutbox \o
              <<OutboxRow(AGG_TRANSFER, transferId, TRANSFER_FAILED,
                          TransferFailedEvent(transferId, STUCK_DEBITED_REASON)),
                OutboxRow(AGG_TRANSFER, transferId, WALLET_CREDIT_FAILED,
                          WalletCreditFailedEvent(transferId, receiverWalletId,
                              COMPENSATION_REASON, senderWalletId, amount))>>
    ELSE UNCHANGED <<transfers, txOutbox>>

(* recoverStuckTransfer for the next entry of the scanned list, by the      *)
(* status the scan read.                                                    *)
RecoverStuckTransfer ==
    /\ stuck # <<>>
    /\ LET s == Head(stuck) IN
        IF s.transfer.status = PENDING
        THEN handleStuckPending(s.transferId)
        ELSE handleStuckDebited(s.transferId, s.transfer.senderWalletId,
                                s.transfer.receiverWalletId, s.transfer.amount)
    /\ stuck' = Tail(stuck)
    /\ UNCHANGED <<pub, response, now, walletDb, broker, consumed, applying, env>>

----------------------------------------------------------------------------
Next ==
    \/ AdvanceClock
    \/ StoreFaultBegins
    \/ StoreFaultEnds
    \/ CreateTransfer
    \/ PublishTxOutbox
    \/ PublishWalletOutbox
    \/ WalletHandleTransferInitiated
    \/ WalletHandleWalletDebited
    \/ WalletHandleWalletCreditFailed
    \/ ApplyCommit
    \/ ApplyThrow
    \/ DlqReplay
    \/ TxHandleWalletDebited
    \/ TxHandleWalletDebitFailed
    \/ TxHandleWalletCredited
    \/ TxHandleWalletCreditFailed
    \/ TxHandleWalletRefunded
    \/ ScanStuckTransfers
    \/ RecoverStuckTransfer

Spec == Init /\ [][Next]_vars

(* Two sagas over the same wallets, with repeated deliveries but without    *)
(* store faults, operator replays and timeouts.                             *)
NextPair ==
    \/ CreateTransferOfPair
    \/ PublishTxOutbox
    \/ PublishWalletOutbox
    \/ WalletHandleTransferInitiated
    \/ WalletHandleWalletDebited
    \/ WalletHandleWalletCreditFailed
    \/ ApplyCommit
    \/ ApplyThrow
    \/ TxHandleWalletDebited
    \/ TxHandleWalletDebitFailed
    \/ TxHandleWalletCredited
    \/ TxHandleWalletCreditFailed
    \/ TxHandleWalletRefunded

SpecPair == Init /\ [][NextPair]_vars

(* @Interval(OUTBOX_POLLING_INTERVAL_MS) of each service's publisher and    *)
(* @Cron(EVERY_10_SECONDS) of the scanner keep ticking, and time passes.    *)
TickFairness ==
    /\ WF_vars(PublishTxOutbox)
    /\ WF_vars(PublishWalletOutbox)
    /\ WF_vars(ScanStuckTransfers)
    /\ WF_vars(RecoverStuckTransfer)
    /\ WF_vars(AdvanceClock)

(* The first delivery of a message to a handler of the wallet service. *)
FirstDelivery(h) == \E m \in broker : ~IsRedelivery(m) /\ Deliver(h, m)

(* The consumers of both services are given every message of their topics   *)
(* and a handler that has started runs to its end.                          *)
ConsumerFairness ==
    /\ WF_vars(FirstDelivery(H_DEBIT))
    /\ WF_vars(FirstDelivery(H_CREDIT))
    /\ WF_vars(FirstDelivery(H_REFUND))
    /\ WF_vars(ApplyCommit \/ ApplyThrow)
    /\ WF_vars(TxHandleWalletDebited)
    /\ WF_vars(TxHandleWalletDebitFailed)
    /\ WF_vars(TxHandleWalletCredited)
    /\ WF_vars(TxHandleWalletCreditFailed)
    /\ WF_vars(TxHandleWalletRefunded)

(* The saga with publishers and scanner ticking; consumers may stall. *)
SpecTicks == Init /\ [][Next]_vars /\ TickFairness

(* The saga with publishers, scanner and consumers all scheduled fairly. *)
SpecFair == Init /\ [][Next]_vars /\ TickFairness /\ ConsumerFairness

----------------------------------------------------------------------------
(* The outbox publisher step by step: one outbox table, the processOutbox   *)
(* transactions of two publisher instances (two replicas, or two            *)
(* overlapping ticks of one instance) and the emissions in the order they   *)
(* reach the broker.                                                        *)

MaxOutboxEntries == 2
MaxPublisherClock == 2

OutboxAggregates == {"t1", "t2"}

(* OutboxRepositoryImpl.save, and the inline inserts of the handlers: a row *)
(* with createdAt = new Date() and publishedAt = null.                      *)
OutboxEntity(id, aggregateId, createdAt) ==
    [id |-> id, aggregateId |-> aggregateId, createdAt |-> createdAt,
     publishedAt |-> NULL]

(* A domain transaction appends a record to the table. *)
SaveOutboxEntry ==
    /\ Len(outboxRows) < MaxOutboxEntries
    /\ \E aggregateId \in OutboxAggregates :
          outboxRows' = Append(outboxRows,
              OutboxEntity(Len(outboxRows) + 1, aggregateId, clock))
    /\ UNCHANGED <<runs, wire, clock>>
    /\ UNCHANGED <<response, now, walletDb, txDb, broker, consumed, applying, stuck, env>>

(* Time passes between two readings of new Date(). *)
OutboxClockTick ==
    /\ clock < MaxPublisherClock
    /\ clock' = clock + 1
    /\ UNCHANGED <<outboxRows, runs, wire>>
    /\ UNCHANGED <<response, now, walletDb, txDb, broker, consumed, applying, stuck, env>>

OpenRuns == {p \in Publishers : runs[p].phase = "publishing"}

(* The query builder of processOutbox calls setOnLocked('skip_locked') and  *)
(* never setLock.                                                           *)
LockMode == NULL
OnLocked == "skip_locked"

(* SelectQueryBuilder.createLockExpression: onLocked is appended to the     *)
(* lock clause of the lock mode, and without a lock mode there is no        *)
(* clause.                                                                  *)
createLockExpression(lockMode, onLocked) ==
    IF lockMode = Some("pessimistic_write")
    THEN IF onLocked = "skip_locked" THEN "FOR UPDATE SKIP LOCKED" ELSE "FOR UPDATE"
    ELSE ""

(* Rows locked by the open transactions of the other instances. *)
LockedByOthers(p) ==
    IF createLockExpression(LockMode, OnLocked) = ""
    THEN {}
    ELSE UNION {{runs[q].entries[k] : k \in 1..Len(runs[q].entries)} :
                    q \in OpenRuns \ {p}}

(* WHERE published_at IS NULL, rows the lock clause skips left out *)
Selectable(p) ==
    {i \in 1..Len(outboxRows) :
        outboxRows[i].publishedAt = NULL /\ i \notin LockedByOthers(p)}

(* ORDER BY created_at ASC LIMIT batch: rows of equal created_at come in    *)
(* any order.                                                               *)
OrderedBatches(rows) ==
    LET n == IF Cardinality(rows) < OUTBOX_BATCH_SIZE
             THEN Cardinality(rows) ELSE OUTBOX_BATCH_SIZE
    IN {b \in [1..n -> rows] :
          /\ \A j, k \in 1..n : j < k =>
                /\ b[j] # b[k]
                /\ outboxRows[b[j]].createdAt <= outboxRows[b[k]].createdAt
          /\ \A i \in rows : (\E j \in 1..n : b[j] = i) \/
                \A j \in 1..n : outboxRows[b[j]].createdAt <= outboxRows[i].createdAt}

(* processOutbox up to getMany: the transaction begins and selects its      *)
(* entries; with no entry it returns.                                       *)
SelectEntries(p) ==
    /\ runs[p].phase = "idle"
    /\ Selectable(p) # {}
    /\ \E entries \in OrderedBatches(Selectable(p)) :
          runs' = [runs EXCEPT ![p] =
                      [phase |-> "publishing", entries |-> entries, next |-> 1,
                       publishedIds |-> {}]]
    /\ UNCHANGED <<outboxRows, wire, clock>>
    /\ UNCHANGED <<response, now, walletDb, txDb, broker, consumed, applying, stuck, env>>

(* What becomes of one kafkaClient.emit: the broker receives the message;   *)
(* or the call throws; or the call returns and the send fails later, in     *)
(* the observable nobody subscribes to.                                     *)
EmitOutcomes == {"delivered", "thrown", "undelivered"}

(* One turn of the loop over the entries: publishEntry in try/catch, the id *)
(* pushed to publishedIds when the call returned.                           *)
PublishNextEntry(p, outcome) ==
    /\ runs[p].phase = "publishing"
    /\ runs[p].next <= Len(runs[p].entries)
    /\ LET id == runs[p].entries[runs[p].next] IN
        /\ wire' = IF outcome = "delivered"
                   THEN Append(wire, [id |-> id, by |-> p,
                                      key |-> outboxRows[id].aggregateId])
                   ELSE wire
        /\ runs' = [runs EXCEPT ![p].next = runs[p].next + 1,
                                ![p].publishedIds =
                                    IF outcome = "thrown"
                                    THEN runs[p].publishedIds
                                    ELSE runs[p].publishedIds \cup {id}]
    /\ UNCHANGED <<outboxRows, clock>>
    /\ UNCHANGED <<response, now, walletDb, txDb, broker, consumed, applying, stuck, env>>

(* UPDATE outbox SET published_at = new Date() WHERE id IN (publishedIds),  *)
(* when there are any, and the commit.                                      *)
MarkAndCommit(p) ==
    /\ runs[p].phase = "publishing"
    /\ runs[p].next > Len(runs[p].entries)
    /\ outboxRows' = [i \in 1..Len(outboxRows) |->
                        IF i \in runs[p].publishedIds
                        THEN [outboxRows[i] EXCEPT !.publishedAt = Some(clock)]
                        ELSE outboxRows[i]]
    /\ runs' = [runs EXCEPT ![p] = IdleRun]
    /\ UNCHANGED <<wire, clock>>
    /\ UNCHANGED <<response, now, walletDb, txDb, broker, consumed, applying, stuck, env>>

ProcessOutboxSelects == \E p \in Publishers : SelectEntries(p)
ProcessOutboxPublishes == \E p \in Publishers : \E outcome \in EmitOutcomes : PublishNextEntry(p, outcome)
ProcessOutboxCommits == \E p \in Publishers : MarkAndCommit(p)

NextOutbox ==
    \/ SaveOutboxEntry
    \/ OutboxClockTick
    \/ ProcessOutboxSelects
    \/ ProcessOutboxPublishes
    \/ ProcessOutboxCommits

SpecOutbox == Init /\ [][NextOutbox]_vars

----------------------------------------------------------------------------
(* The wallet service at its own interfaces: wallet.credit-failed messages  *)
(* of any producer, and dead letters inserted and re-queued directly in the *)
(* table as the e2e suite does.                                             *)

MaxDeadLetters == 1

(* An existing and a missing sender wallet. *)
DlqSenders == {"A", "X"}

(* The topic handleReplay supports and one it does not. *)
DlqTopics == {"wallet.credit-failed", "wallet.debited"}

(* The payload of a wallet.credit-failed event for a refund to `sender` *)
CreditFailedOf(sender) ==
    WalletCreditFailedEvent("t1", "B", "Wallet not found", sender, 1)

(* @EventPattern(wallet.credit-failed): a message on the topic *)
ProduceCreditFailed ==
    /\ \E sender \in DlqSenders :
          LET m == Message("wallet.credit-failed", "t1", CreditFailedOf(sender)) IN
          /\ m \notin broker
          /\ broker' = broker \cup {m}
    /\ UNCHANGED <<pub, response, now, walletDb, txDb, consumed, applying, stuck, env>>

(* INSERT INTO dead_letter_queue (... 'Wallet not found', NULL, 3, 'PENDING') *)
SeedDeadLetter ==
    /\ Len(dlq) < MaxDeadLetters
    /\ \E topic \in DlqTopics : \E sender \in DlqSenders :
          dlq' = Append(dlq, [originalTopic |-> topic,
                              originalPayload |-> CreditFailedOf(sender),
                              errorMessage |-> "Wallet not found",
                              attemptCount |-> 3,
                              status |-> DLQ_PENDING, processedAt |-> NULL])
    /\ UNCHANGED <<pub, response, now, wallets, ledger, walletOutbox, txDb, broker,
                   consumed, applying, stuck, env>>

(* UPDATE dead_letter_queue SET status = 'PENDING', processed_at = NULL *)
ResetDeadLetter ==
    /\ \E id \in 1..Len(dlq) :
          /\ dlq[id].status = DLQ_PROCESSED
          /\ dlq' = [dlq EXCEPT ![id].status = DLQ_PENDING, ![id].processedAt = NULL]
    /\ UNCHANGED <<pub, response, now, wallets, ledger, walletOutbox, txDb, broker,
                   consumed, applying, stuck, env>>

NextDlq ==
    \/ ProduceCreditFailed
    \/ SeedDeadLetter
    \/ ResetDeadLetter
    \/ WalletHandleWalletCreditFailed
    \/ ApplyCommit
    \/ ApplyThrow
    \/ DlqReplay
    \/ PublishWalletOutbox
    \/ StoreFaultBegins
    \/ StoreFaultEnds

SpecDlq == Init /\ [][NextDlq]_vars

----------------------------------------------------------------------------
(* Properties *)

RECURSIVE SumAmounts(_)
SumAmounts(rows) ==
    IF rows = {} THEN 0
    ELSE LET e == CHOOSE x \in rows : TRUE
         IN e.amount * CopiesIn(e, ledger) + SumAmounts(rows \ {e})

(* Total amount of the ledger entries of one type of a wallet. *)
LedgerTotal(w, type) ==
    SumAmounts({e \in BagToSet(ledger) : e.walletId = w /\ e.type = type})

(* Outbox rows and messages of a transfer. *)
RowsOf(outbox, transferId, eventType) ==
    {i \in 1..Len(outbox) :
        outbox[i].aggregateId = transferId /\ outbox[i].eventType = eventType}

(* C1: under any interleaving of debits, credits and refunds no wallet      *)
(* balance is negative, and the debits committed against a wallet never add *)
(* up to more than the wallet ever held: of two concurrent debits against a *)
(* balance that covers one, at most one commits.                            *)
C1_BalanceNeverNegative ==
    \A w \in DOMAIN wallets :
        /\ wallets[w] >= 0
        /\ LedgerTotal(w, DEBIT) <=
              SeedBalance[w] + LedgerTotal(w, CREDIT) + LedgerTotal(w, REFUND)

(* Two transfers debit wallet A, which covers one: one is in the ledger,    *)
(* the other was rejected for insufficient balance.                         *)
C1_Witness ==
    \E t1 \in DOMAIN transfers, t2 \in DOMAIN transfers :
        /\ t1 # t2
        /\ transfers[t1].senderWalletId = "A" /\ transfers[t2].senderWalletId = "A"
        /\ ExistingEntries("A", t1) # {}
        /\ ExistingEntries("A", t2) = {}
        /\ \E i \in RowsOf(walletOutbox, t2, WALLET_DEBIT_FAILED) :
              walletOutbox[i].payload.reason = "Insufficient balance: current=0, required=1"

(* The signed amount by which a ledger entry's apply changed a balance. *)
Signed(e) == IF e.type = DEBIT THEN 0 - e.amount ELSE e.amount

RECURSIVE SumSigned(_)
SumSigned(rows) ==
    IF rows = {} THEN 0
    ELSE LET e == CHOOSE x \in rows : TRUE
         IN Signed(e) * CopiesIn(e, ledger) + SumSigned(rows \ {e})

(* What the applies of a transfer (its debit, credit and refund) changed    *)
(* the balances of its sender and receiver by, in total.                    *)
NetEffect(t) ==
    SumSigned({e \in BagToSet(ledger) :
                 /\ e.transactionId \in {t, generateRefundTransactionId(t)}
                 /\ e.walletId \in {transfers[t].senderWalletId,
                                    transfers[t].receiverWalletId}})

MessagesOf(t, topic) == {m \in broker : m.topic = topic /\ m.key = t}

(* Nothing of transfer t is left to process: every outbox row is published, *)
(* every message to the wallet service is handled, no apply is open, no     *)
(* dead letter waits, and the coordinator no longer reacts to any event.    *)
Settled(t) ==
    /\ transfers[t].status \in {COMPLETED, FAILED}
    /\ \A i \in Unpublished(txOutbox) : txOutbox[i].aggregateId # t
    /\ \A i \in Unpublished(walletOutbox) : walletOutbox[i].aggregateId # t
    /\ \A m \in broker :
          (m.key = t /\ m.topic \in {"transfer.initiated", "wallet.debited",
                                     "wallet.credit-failed"}) => Handled(m)
    /\ \A r \in BagToSet(applying) : r.event.transferId # t
    /\ \A i \in 1..Len(dlq) :
          dlq[i].originalPayload.transferId = t => dlq[i].status = DLQ_PROCESSED
    /\ \A i \in 1..Len(stuck) : stuck[i].transferId # t

(* C2: for every transfer that is COMPLETED or FAILED with none of its      *)
(* events left unprocessed, the balances of sender and receiver add up to   *)
(* what they added up to before the transfer: its applies cancel out.       *)
C2_MoneyConserved ==
    \A t \in DOMAIN transfers : Settled(t) => NetEffect(t) = 0

(* The number of REFUND ledger entries of a transfer, on any wallet. *)
RefundEntries(t) ==
    LET rows == {e \in BagToSet(ledger) :
                    e.type = REFUND /\ e.transactionId = generateRefundTransactionId(t)}
    IN IF rows = {} THEN 0
       ELSE IF Cardinality(rows) = 1 THEN CopiesIn(CHOOSE e \in rows : TRUE, ledger)
       ELSE 2

RECURSIVE SumSent(_, _)
SumSent(ts, w) ==
    IF ts = {} THEN 0
    ELSE LET t == CHOOSE x \in ts : TRUE
         IN (IF transfers[t].senderWalletId = w THEN transfers[t].amount ELSE 0)
            + SumSent(ts \ {t}, w)

(* What a wallet's balance grew by other than through its credits. *)
RefundedTo(w) ==
    wallets[w] - SeedBalance[w] + LedgerTotal(w, DEBIT) - LedgerTotal(w, CREDIT)

(* C3: for every transferId the ledger holds at most one REFUND entry, and   *)
(* the sender's balance grows by refunds at most once per transfer it sent, *)
(* however many wallet.credit-failed events (real or synthetic) are         *)
(* delivered, retried, replayed from the dead letter queue or produced by   *)
(* scanner ticks.                                                           *)
C3_RefundAtMostOnce ==
    /\ \A t \in DOMAIN transfers : RefundEntries(t) <= 1
    /\ \A w \in DOMAIN wallets : RefundedTo(w) <= SumSent(DOMAIN transfers, w)

(* A refunded transfer with both a real and a synthetic credit-failed event *)
(* published and a dead letter of it replayed.                              *)
C3_Witness ==
    \E t \in DOMAIN transfers :
        /\ RefundEntries(t) = 1
        /\ Cardinality(MessagesOf(t, "wallet.credit-failed")) >= 2
        /\ \E i \in 1..Len(dlq) :
              dlq[i].originalPayload.transferId = t /\ dlq[i].status = DLQ_PROCESSED

(* C4: the ledger holds at most one entry per (walletId, transactionId),    *)
(* also when two applies of the same key both pass the existence check.     *)
C4_OneEntryPerKey ==
    \A e1 \in BagToSet(ledger) :
        /\ CopiesIn(e1, ledger) = 1
        /\ \A e2 \in BagToSet(ledger) :
              (e1.walletId = e2.walletId /\ e1.transactionId = e2.transactionId)
                 => e1 = e2

(* A credit that passed the existence check and was then rejected by the    *)
(* unique index because a concurrent apply of the same key had committed.   *)
C4_Witness ==
    \E t \in DOMAIN transfers :
        /\ ExistingEntries(transfers[t].receiverWalletId, t) # {}
        /\ \E i \in RowsOf(walletOutbox, t, WALLET_CREDIT_FAILED) :
              walletOutbox[i].payload.reason = UniqueViolation

Terminal(status) == status \in {COMPLETED, FAILED}

(* C5: once a transfer is COMPLETED or FAILED, no step changes its status   *)
(* or its failureReason.                                                    *)
C5_TerminalIsFinal ==
    [][\A t \in DOMAIN transfers :
          Terminal(transfers[t].status) =>
              /\ transfers'[t].status = transfers[t].status
              /\ transfers'[t].failureReason = transfers[t].failureReason]_vars

(* A transfer the scanner failed, with the wallet.credited event of its     *)
(* credit arriving afterwards.                                              *)
C5_Witness ==
    \E t \in DOMAIN transfers :
        /\ transfers[t].status = FAILED
        /\ transfers[t].failureReason = Some(STUCK_DEBITED_REASON)
        /\ MessagesOf(t, "wallet.credited") # {}

AllowedTransitions ==
    {<<PENDING, DEBITED>>, <<PENDING, FAILED>>, <<DEBITED, COMPLETED>>, <<DEBITED, FAILED>>}

(* C6: every change of a transfer's status is PENDING->DEBITED,             *)
(* PENDING->FAILED, DEBITED->COMPLETED or DEBITED->FAILED, and a step that  *)
(* does not change the status (an event whose expected source status does   *)
(* not match) leaves the transfer as it was.                                *)
C6_OnlyAllowedTransitions ==
    [][\A t \in DOMAIN transfers :
          IF transfers'[t].status # transfers[t].status
          THEN <<transfers[t].status, transfers'[t].status>> \in AllowedTransitions
          ELSE transfers'[t] = transfers[t]]_vars

(* A PENDING transfer whose wallet.credited event is already published: the *)
(* event expects DEBITED.                                                   *)
C6_Witness ==
    \E t \in DOMAIN transfers :
        /\ transfers[t].status = PENDING
        /\ MessagesOf(t, "wallet.credited") # {}

(* C7: every wallet's balance is its seeded balance plus its CREDIT and     *)
(* REFUND ledger entries minus its DEBIT ledger entries.                    *)
C7_BalanceMatchesLedger ==
    \A w \in DOMAIN wallets :
        wallets[w] = SeedBalance[w] + LedgerTotal(w, CREDIT) + LedgerTotal(w, REFUND)
                        - LedgerTotal(w, DEBIT)

(* A wallet that was debited and refunded, and a wallet that was credited. *)
C7_Witness ==
    /\ \E w \in DOMAIN wallets : LedgerTotal(w, DEBIT) > 0 /\ LedgerTotal(w, REFUND) > 0
    /\ \E w \in DOMAIN wallets : LedgerTotal(w, CREDIT) > 0

TerminalRows(t) ==
    RowsOf(txOutbox, t, TRANSFER_COMPLETED) \cup RowsOf(txOutbox, t, TRANSFER_FAILED)

(* C8: when a handler and the scanner race for a transfer, one conditional  *)
(* update wins and the loser writes no outbox record: the coordinator's     *)
(* outbox holds at most one terminal event per transfer, a terminal         *)
(* transfer has exactly the one matching its status, and a synthetic        *)
(* wallet.credit-failed is there only if the scanner's update won.          *)
C8_OneTerminalEvent ==
    \A t \in DOMAIN transfers :
        /\ Cardinality(TerminalRows(t)) <= 1
        /\ Cardinality(TerminalRows(t)) = 1 <=> Terminal(transfers[t].status)
        /\ RowsOf(txOutbox, t, TRANSFER_COMPLETED) # {} => transfers[t].status = COMPLETED
        /\ RowsOf(txOutbox, t, TRANSFER_FAILED) # {} => transfers[t].status = FAILED
        /\ Cardinality(RowsOf(txOutbox, t, WALLET_CREDIT_FAILED)) <= 1
        /\ RowsOf(txOutbox, t, WALLET_CREDIT_FAILED) # {} =>
              transfers[t].failureReason = Some(STUCK_DEBITED_REASON)

(* The scanner holds a transfer it read as DEBITED, which the credited      *)
(* handler has completed in the meantime.                                   *)
C8_Witness ==
    /\ stuck # <<>>
    /\ Head(stuck).transfer.status = DEBITED
    /\ transfers[Head(stuck).transferId].status = COMPLETED
    /\ RowsOf(txOutbox, Head(stuck).transferId, TRANSFER_COMPLETED) # {}

(* C9, for the debit and the credit: a delivery of a transfer.initiated or  *)
(* wallet.debited message that the wallet service had already handled       *)
(* changes no wallet and no ledger entry, so that the outcome is that of    *)
(* delivering the message once.                                             *)
C9_RedeliveryChangesNothing ==
    [][\A r \in BagToSet(applying) :
          (/\ r.handler \in {H_DEBIT, H_CREDIT}
           /\ r.handledBefore
           /\ applying' = applying (-) SetToBag({r}))
             => UNCHANGED <<wallets, ledger>>]_vars

(* C10: createTransfer persists in one step exactly one Transfer, PENDING   *)
(* and with timeoutAt = now + SAGA_TIMEOUT_MS, and exactly one unpublished  *)
(* TransferInitiated outbox record whose aggregateId is the transferId; no  *)
(* transfer ever has a second or no such record.                            *)
C10_CreateTransferAtomic ==
    [][/\ \A t \in DOMAIN transfers :
             Cardinality(RowsOf(txOutbox', t, TRANSFER_INITIATED)) = 1
       /\ DOMAIN transfers' # DOMAIN transfers =>
             \E t \in DOMAIN transfers' \ DOMAIN transfers :
                /\ DOMAIN transfers' = DOMAIN transfers \cup {t}
                /\ transfers'[t].status = PENDING
                /\ transfers'[t].timeoutAt = now + DEFAULT_SAGA_TIMEOUT_MS
                /\ Len(txOutbox') = Len(txOutbox) + 1
                /\ txOutbox'[Len(txOutbox')].eventType = TRANSFER_INITIATED
                /\ txOutbox'[Len(txOutbox')].aggregateId = t
                /\ txOutbox'[Len(txOutbox')].payload.transferId = t
                /\ txOutbox'[Len(txOutbox')].publishedAt = NULL
                /\ Cardinality(RowsOf(txOutbox', t, TRANSFER_INITIATED)) = 1]_vars

(* A transfer created after the clock has advanced, still PENDING, its      *)
(* TransferInitiated record not yet published.                              *)
C10_Witness ==
    \E t \in DOMAIN transfers :
        /\ now > 0
        /\ transfers[t].createdAt = now
        /\ transfers[t].status = PENDING
        /\ \E i \in RowsOf(txOutbox, t, TRANSFER_INITIATED) : txOutbox[i].publishedAt = NULL

(* The number of ledger entries of a type under a transaction id. *)
RECURSIVE CountCopies(_)
CountCopies(rows) ==
    IF rows = {} THEN 0
    ELSE LET e == CHOOSE x \in rows : TRUE
         IN CopiesIn(e, ledger) + CountCopies(rows \ {e})

EntryCount(transactionId, type) ==
    CountCopies({e \in BagToSet(ledger) :
                    e.type = type /\ e.transactionId = transactionId})

(* C11: every ledger entry of a saga is committed together with exactly one *)
(* success record in the wallet service's outbox (DEBIT with WalletDebited, *)
(* CREDIT with WalletCredited, REFUND with WalletRefunded): in every state  *)
(* the entry exists if and only if its record exists.                       *)
C11_EntryIffEvent ==
    \A t \in DOMAIN transfers :
        /\ EntryCount(t, DEBIT) = Cardinality(RowsOf(walletOutbox, t, WALLET_DEBITED))
        /\ EntryCount(t, CREDIT) = Cardinality(RowsOf(walletOutbox, t, WALLET_CREDITED))
        /\ EntryCount(generateRefundTransactionId(t), REFUND) =
              Cardinality(RowsOf(walletOutbox, t, WALLET_REFUNDED))

(* The ledger has an entry under the key (walletId, transactionId). *)
HasEntry(walletId, transactionId) ==
    \E e \in BagToSet(ledger) : e.walletId = walletId /\ e.transactionId = transactionId

(* C12: an apply for a key that already has a ledger entry returns          *)
(* isDuplicate at once: the balance is unchanged, no ledger entry is added, *)
(* no outbox record is written and no transaction is left open. Stated for  *)
(* the applies of the three handlers and of the replay.                     *)
C12_DuplicateApplyChangesNothing ==
    [][/\ \A h \in {H_DEBIT, H_CREDIT, H_REFUND} : \A m \in broker :
            (/\ Deliver(h, m)
             /\ HasEntry(ApplyWallet(h, m.value), ApplyTransactionId(h, m.value)))
            => /\ UNCHANGED <<wallets, ledger, walletOutbox, applying>>
               /\ m \in consumed'
       /\ \A id \in 1..Len(dlq) :
            (/\ replay(id)
             /\ HasEntry(ApplyWallet(H_REPLAY, dlq[id].originalPayload),
                         ApplyTransactionId(H_REPLAY, dlq[id].originalPayload)))
            => UNCHANGED <<wallets, ledger, walletOutbox, applying>>]_vars

(* The debit's message was delivered again after the debit had committed:   *)
(* one DEBIT entry, one WalletDebited record, nothing else.                 *)
C12_Witness ==
    /\ redeliveries = 1
    /\ EntryCount("t1", DEBIT) = 1
    /\ \A m \in broker : m.topic = "transfer.initiated"
    /\ Len(walletOutbox) = 1
    /\ walletOutbox[1].eventType = WALLET_DEBITED
    /\ applying = EmptyBag
    /\ wallets["A"] = 0

SuccessEventTypes == {WALLET_DEBITED, WALLET_CREDITED, WALLET_REFUNDED}

(* The records appended to the wallet outbox by a step. *)
AppendedToWalletOutbox ==
    {walletOutbox'[i] : i \in (Len(walletOutbox) + 1)..Len(walletOutbox')}

(* C13: an apply that fails leaves the store unchanged. With the store up,  *)
(* an apply on a missing wallet fails with 'Wallet not found' and a debit   *)
(* above the balance fails with 'Insufficient balance' (neither commits);   *)
(* a failing apply changes no balance, inserts no ledger entry and does not *)
(* write the success record it was given.                                   *)
C13_FailedApplyChangesNothing ==
    [][\A r \in BagToSet(applying) :
        LET w == ApplyWallet(r.handler, r.event)
            missing == w \notin DOMAIN wallets
            short == /\ ~missing
                     /\ ApplyType(r.handler) = DEBIT
                     /\ wallets[w] < r.event.amount
        IN /\ ApplyCommits(r) => ~missing /\ ~short
           /\ \A error \in ThrownErrors(r) : ApplyThrows(r, error) =>
                /\ (~storeFault /\ missing) => error = "Wallet not found: " \o w
                /\ (~storeFault /\ short) =>
                      error = "Insufficient balance: current=" \o ToString(wallets[w])
                                \o ", required=" \o ToString(r.event.amount)
                /\ UNCHANGED <<wallets, ledger>>
                /\ \A row \in AppendedToWalletOutbox :
                      row.eventType \notin SuccessEventTypes]_vars

(* A debit above the balance has failed: its reason is recorded, no entry   *)
(* exists and the balances are those of the start.                          *)
C13_Witness ==
    /\ \E i \in 1..Len(walletOutbox) :
          /\ walletOutbox[i].eventType = WALLET_DEBIT_FAILED
          /\ walletOutbox[i].payload.reason = "Insufficient balance: current=0, required=1"
    /\ ledger = EmptyBag
    /\ wallets = SeedBalance

(* A transfer between two existing wallets whose sender holds the amount. *)
Funded(t) ==
    /\ t \in DOMAIN transfers
    /\ transfers[t].senderWalletId \in DOMAIN wallets
    /\ transfers[t].receiverWalletId \in DOMAIN wallets
    /\ SeedBalance[transfers[t].senderWalletId] >= transfers[t].amount

(* The ledger entries recorded under the transfer's id. *)
EntriesOfTransfer(t) == {e \in BagToSet(ledger) : e.transactionId = t}

(* COMPLETED with the amount moved and the two entries of the transfer. *)
CompletedWithEffects(t) ==
    /\ t \in DOMAIN transfers
    /\ transfers[t].status = COMPLETED
    /\ LET tr == transfers[t] IN
        /\ wallets[tr.senderWalletId] = SeedBalance[tr.senderWalletId] - tr.amount
        /\ wallets[tr.receiverWalletId] = SeedBalance[tr.receiverWalletId] + tr.amount
        /\ EntriesOfTransfer(t) = {LedgerRow(tr.senderWalletId, t, DEBIT, tr.amount),
                                   LedgerRow(tr.receiverWalletId, t, CREDIT, tr.amount)}
        /\ \A e \in EntriesOfTransfer(t) : CopiesIn(e, ledger) = 1

(* FAILED by the timeout scanner. *)
TimedOut(t) ==
    /\ t \in DOMAIN transfers
    /\ transfers[t].status = FAILED
    /\ transfers[t].failureReason \in {Some(STUCK_PENDING_REASON), Some(STUCK_DEBITED_REASON)}

(* C14: a transfer between existing wallets with a sufficient sender        *)
(* balance, under fair publishers and consumers, eventually is COMPLETED    *)
(* with the sender's balance decreased and the receiver's increased by the  *)
(* amount and exactly the DEBIT and the CREDIT entry of the transfer. A     *)
(* transfer that the timeout scanner fails first is left aside.             *)
C14_FundedTransferCompletes ==
    \A t \in {"t1"} : Funded(t) ~> (CompletedWithEffects(t) \/ TimedOut(t))

(* The credit of the transfer failed on a receiver wallet that does not     *)
(* exist, after the debit had been applied.                                 *)
CreditFailedNoWallet(t) ==
    /\ t \in DOMAIN transfers
    /\ transfers[t].receiverWalletId \notin DOMAIN wallets
    /\ EntryCount(t, DEBIT) = 1
    /\ \E i \in RowsOf(walletOutbox, t, WALLET_CREDIT_FAILED) :
          walletOutbox[i].payload.reason = "Wallet not found: " \o transfers[t].receiverWalletId

(* FAILED for the missing wallet, with the sender refunded once. *)
CompensatedNoWallet(t) ==
    /\ t \in DOMAIN transfers
    /\ transfers[t].status = FAILED
    /\ LET tr == transfers[t] IN
        /\ tr.failureReason = Some("Wallet not found: " \o tr.receiverWalletId)
        /\ tr.senderWalletId \in DOMAIN wallets
        /\ wallets[tr.senderWalletId] = SeedBalance[tr.senderWalletId]
        /\ {e \in BagToSet(ledger) : e.walletId = tr.senderWalletId} =
              {LedgerRow(tr.senderWalletId, t, DEBIT, tr.amount),
               LedgerRow(tr.senderWalletId, generateRefundTransactionId(t), REFUND, tr.amount)}
        /\ \A e \in BagToSet(ledger) : CopiesIn(e, ledger) = 1
        /\ \A e \in BagToSet(ledger) : e.walletId # tr.receiverWalletId

(* C15: when the debit has succeeded and the credit fails because the       *)
(* receiver wallet does not exist, under fair publishers and consumers the  *)
(* transfer eventually is FAILED with the reason 'Wallet not found', the    *)
(* sender's balance is back at its value before the transfer, the sender    *)
(* has exactly one DEBIT and one REFUND entry of the amount and the         *)
(* receiver has no entry. A transfer that the timeout scanner fails first,  *)
(* or whose refund went to the dead letter queue, is left aside.            *)
C15_MissingReceiverIsCompensated ==
    \A t \in {"t1"} :
        CreditFailedNoWallet(t) ~>
            (CompensatedNoWallet(t) \/ TimedOut(t) \/ Len(dlq) > 0)

(* The reasons of the two business failures of a debit of transfer t. *)
DebitRejectionReasons(t) ==
    {"Wallet not found: " \o transfers[t].senderWalletId} \cup
    {"Insufficient balance: current=" \o ToString(b) \o ", required="
        \o ToString(transfers[t].amount) : b \in 0..(transfers[t].amount - 1)}

(* The reasons of the WalletDebitFailed records of transfer t. *)
DebitFailedReasons(t) ==
    {walletOutbox[i].payload.reason : i \in RowsOf(walletOutbox, t, WALLET_DEBIT_FAILED)}

(* The debit of t failed on a short balance or a missing sender wallet. *)
DebitRejected(t) == DebitFailedReasons(t) \cap DebitRejectionReasons(t) # {}

(* C16: once the debit of a transfer has failed because the sender's balance *)
(* is insufficient or the sender wallet does not exist (a WalletDebitFailed *)
(* record with that reason, and no ledger entry), no later step of the saga *)
(* changes a balance for the transfer: no DEBIT, CREDIT or REFUND entry of  *)
(* it is ever created, it is never DEBITED or COMPLETED, and when FAILED it *)
(* carries the reason of a WalletDebitFailed record, unless the timeout     *)
(* scanner failed it first.                                                 *)
C16_RejectedDebitMovesNothing ==
    [][\A t \in DOMAIN transfers :
        (DebitRejected(t) /\ EntriesOfTransfer(t) = {}) =>
            /\ EntriesOfTransfer(t)' = {}
            /\ EntryCount(generateRefundTransactionId(t), REFUND)' = 0
            /\ transfers'[t].status \in {PENDING, FAILED}
            /\ transfers'[t].status = FAILED =>
                  \/ TimedOut(t)'
                  \/ \E reason \in DebitFailedReasons(t)' :
                        transfers'[t].failureReason = Some(reason)]_vars

(* The scanner's compensation request for transfer t is in the              *)
(* coordinator's outbox.                                                    *)
CompensationRequested(t) == RowsOf(txOutbox, t, WALLET_CREDIT_FAILED) # {}

RefundedOnce(t) == EntryCount(generateRefundTransactionId(t), REFUND) = 1

(* What a scanner tick does to the transfer at the head of its list when    *)
(* that transfer was read as DEBITED: FAILED with the timeout reason, a     *)
(* TransferFailed record and a WalletCreditFailed record carrying the       *)
(* sender and the amount, all three or none.                                *)
StuckDebitedAllOrNothing ==
    (RecoverStuckTransfer /\ Head(stuck).transfer.status = DEBITED) =>
        LET t == Head(stuck).transferId
            tr == transfers[t]
        IN /\ tr.timeoutAt < now
           /\ IF tr.status = DEBITED
              THEN /\ transfers'[t].status = FAILED
                   /\ transfers'[t].failureReason = Some(STUCK_DEBITED_REASON)
                   /\ Len(txOutbox') = Len(txOutbox) + 2
                   /\ SubSeq(txOutbox', 1, Len(txOutbox)) = txOutbox
                   /\ txOutbox'[Len(txOutbox) + 1].eventType = TRANSFER_FAILED
                   /\ txOutbox'[Len(txOutbox) + 1].aggregateId = t
                   /\ txOutbox'[Len(txOutbox) + 2].eventType = WALLET_CREDIT_FAILED
                   /\ txOutbox'[Len(txOutbox) + 2].aggregateId = t
                   /\ txOutbox'[Len(txOutbox) + 2].payload.senderWalletId = tr.senderWalletId
                   /\ txOutbox'[Len(txOutbox) + 2].payload.amount = tr.amount
              ELSE UNCHANGED <<transfers, txOutbox>>

StuckPendingBothOrNeither ==
    (RecoverStuckTransfer /\ Head(stuck).transfer.status = PENDING) =>
        LET t == Head(stuck).transferId
            tr == transfers[t]
        IN IF tr.status = PENDING
           THEN /\ transfers'[t].status = FAILED
                /\ transfers'[t].failureReason = Some(STUCK_PENDING_REASON)
                /\ Len(txOutbox') = Len(txOutbox) + 1
                /\ SubSeq(txOutbox', 1, Len(txOutbox)) = txOutbox
                /\ txOutbox'[Len(txOutbox) + 1].eventType = TRANSFER_FAILED
                /\ txOutbox'[Len(txOutbox) + 1].aggregateId = t
           ELSE UNCHANGED <<transfers, txOutbox>>

(* No step of the scanner touches a transfer whose timeoutAt has not passed. *)
UnexpiredUntouchedByScanner ==
    (ScanStuckTransfers \/ RecoverStuckTransfer) =>
        \A t \in DOMAIN transfers :
            ~(transfers[t].timeoutAt < now) =>
                /\ transfers'[t] = transfers[t]
                /\ RowsOf(txOutbox', t, TRANSFER_FAILED) = RowsOf(txOutbox, t, TRANSFER_FAILED)
                /\ RowsOf(txOutbox', t, WALLET_CREDIT_FAILED) =
                      RowsOf(txOutbox, t, WALLET_CREDIT_FAILED)
                /\ \A i \in 1..Len(stuck') : stuck'[i].transferId # t

(* C18: a scanner tick moves a selected PENDING transfer whose timeoutAt is *)
(* earlier than now to FAILED with a 'Saga timeout' reason and appends one  *)
(* TransferFailed record in the same transaction; the scanner never selects *)
(* or changes a transfer whose timeoutAt has not passed.                    *)
C18_ScannerFailsOnlyExpired ==
    [][StuckPendingBothOrNeither /\ UnexpiredUntouchedByScanner]_vars

(* The scanner has failed a PENDING transfer: one TransferFailed record and *)
(* no ledger entry.                                                         *)
C18_Witness ==
    /\ "t1" \in DOMAIN transfers
    /\ transfers["t1"].status = FAILED
    /\ transfers["t1"].failureReason = Some(STUCK_PENDING_REASON)
    /\ Cardinality(RowsOf(txOutbox, "t1", TRANSFER_FAILED)) = 1
    /\ transfers["t1"].timeoutAt < now

(* The instant up to which the clock of the model runs. *)
Horizon == MaxClockSteps * ClockStep

(* C19: every initiated transfer eventually reaches COMPLETED or FAILED,    *)
(* with no assumption on the consumers, provided the publishers and the     *)
(* timeout scanner keep ticking. Stated for the transfers whose timeoutAt   *)
(* lies before the horizon of the clock.                                    *)
C19_EveryTransferTerminates ==
    \A t \in {"t1"} :
        (t \in DOMAIN transfers /\ transfers[t].timeoutAt < Horizon)
            ~> (t \in DOMAIN transfers /\ Terminal(transfers[t].status))

(* No consumer ever handled an event of the transfer, and the scanner has   *)
(* brought it to FAILED.                                                    *)
C19_Witness ==
    /\ "t1" \in DOMAIN transfers
    /\ transfers["t1"].timeoutAt < Horizon
    /\ transfers["t1"].status = FAILED
    /\ consumed = {}
    /\ applying = EmptyBag
    /\ ledger = EmptyBag

(* Positions of the outbox tables the property below ranges over; a table   *)
(* of one saga holds no more rows than this.                                *)
MaxOutboxRows == 4

IsUnpublished(outbox, i) == i <= Len(outbox) /\ outbox[i].publishedAt = NULL

IsPublished(outbox, i) == i <= Len(outbox) /\ outbox[i].publishedAt # NULL

(* Every record of transfer t in both outbox tables is marked published. *)
AllPublishedOf(t) ==
    /\ \A i \in 1..Len(txOutbox) :
          txOutbox[i].aggregateId = t => txOutbox[i].publishedAt # NULL
    /\ \A i \in 1..Len(walletOutbox) :
          walletOutbox[i].aggregateId = t => walletOutbox[i].publishedAt # NULL

(* C20: with the publishers' ticks scheduled fairly, every outbox record    *)
(* with publishedAt = NULL eventually has publishedAt set, in both          *)
(* services, and once a saga is terminal all outbox records of its          *)
(* transferId in both services become published.                            *)
C20_EveryRecordPublished ==
    /\ \A i \in 1..MaxOutboxRows :
          /\ IsUnpublished(txOutbox, i) ~> IsPublished(txOutbox, i)
          /\ IsUnpublished(walletOutbox, i) ~> IsPublished(walletOutbox, i)
    /\ \A t \in {"t1"} :
          (t \in DOMAIN transfers /\ Terminal(transfers[t].status)) ~> AllPublishedOf(t)

(* A terminal saga whose records, in both services, are all published. *)
C20_Witness ==
    /\ "t1" \in DOMAIN transfers
    /\ transfers["t1"].status = COMPLETED
    /\ Len(txOutbox) = 2
    /\ Len(walletOutbox) = 2
    /\ AllPublishedOf("t1")

(* The emissions of outbox row i that reached the broker. *)
EmissionsOf(i) == {k \in 1..Len(wire) : wire[k].id = i}

(* C21: publishedAt is set only for records whose emission to the broker    *)
(* succeeded: no record is marked published without having been delivered   *)
(* to the broker.                                                           *)
C21_MarkedOnlyIfDelivered ==
    \A i \in 1..Len(outboxRows) :
        outboxRows[i].publishedAt # NULL => EmissionsOf(i) # {}

(* The rows selected by the open transaction of publisher p. *)
SelectedBy(p) == {runs[p].entries[k] : k \in 1..Len(runs[p].entries)}

(* C22: when two publisher runs execute concurrently against the same       *)
(* outbox table, a record selected by one uncommitted run is skipped by the *)
(* other, and no record is emitted to the broker by both runs.              *)
C22_ConcurrentRunsShareNoRecord ==
    /\ \A p, q \in OpenRuns : p # q => SelectedBy(p) \cap SelectedBy(q) = {}
    /\ \A i \in 1..Len(outboxRows) :
          Cardinality({wire[k].by : k \in EmissionsOf(i)}) <= 1

(* Row i was created strictly before row j for the same aggregate. *)
EarlierOfSameAggregate(i, j) ==
    /\ outboxRows[i].aggregateId = outboxRows[j].aggregateId
    /\ outboxRows[i].createdAt < outboxRows[j].createdAt

(* C23: for two outbox records with the same aggregateId, the record with   *)
(* the earlier createdAt reaches the broker before the later one, for every *)
(* publisher schedule and also when an emission fails and is retried.       *)
C23_PerAggregateOrderOnTheWire ==
    \A k \in 1..Len(wire) :
        \A i \in 1..Len(outboxRows) :
            EarlierOfSameAggregate(i, wire[k].id)
                => \E e \in EmissionsOf(i) : e < k

(* C24: the publishedAt of an outbox record changes only from NULL to a     *)
(* timestamp and at most once: once set it is never reset to NULL and never *)
(* overwritten by a later publisher run.                                    *)
C24_PublishedAtSetOnce ==
    [][\A i \in 1..Len(outboxRows) :
          outboxRows[i].publishedAt # NULL
              => outboxRows'[i].publishedAt = outboxRows[i].publishedAt]_vars

(* Some row of the outbox is the record message m was published from. *)
PublishedFrom(outbox, m) == \E i \in 1..Len(outbox) : publishEntry(outbox[i]) = m

(* C25: no event reaches the broker without a persisted outbox record,      *)
(* including the WalletRefunded produced by a DLQ replay.                   *)
C25_BrokerEventHasOutboxRecord ==
    \A m \in broker : PublishedFrom(txOutbox, m) \/ PublishedFrom(walletOutbox, m)

(* The refund run r has used up the retries of performRefundWithRetry. *)
RefundExhausted(r) == r.handler = H_REFUND /\ r.retries = 0

(* The dead letter the spec describes for refund run r failing with error. *)
DeadLetterOf(r, error) ==
    [originalTopic |-> "wallet.credit-failed", originalPayload |-> r.event,
     errorMessage |-> error, attemptCount |-> 3,
     status |-> DLQ_PENDING, processedAt |-> NULL]

RefundMeetsBusinessError(r) ==
    /\ r.handler = H_REFUND
    /\ ~storeFault
    /\ ExistingEntries(ApplyWallet(H_REFUND, r.event),
                       ApplyTransactionId(H_REFUND, r.event)) = {}
    /\ ApplyWallet(H_REFUND, r.event) \notin DOMAIN wallets

(* C27: in the refund handler a business error (Wallet not found) is not    *)
(* retried in process: the call that meets it is the last one, and the      *)
(* message goes to the dead letter queue at once.                           *)
C27_BusinessErrorNotRetried ==
    [][\A r \in BagToSet(applying) :
          (/\ RefundMeetsBusinessError(r)
           /\ CopiesIn(r, applying') < CopiesIn(r, applying))
            => /\ Len(dlq') = Len(dlq) + 1
               /\ ~BagIn([r EXCEPT !.retries = r.retries - 1], applying')]_vars

(* The failure records of the wallet outbox. *)
FailureEventTypes == {WALLET_DEBIT_FAILED, WALLET_CREDIT_FAILED}

(* C28: a transient store error in the debit or the credit handler writes   *)
(* no WalletDebitFailed or WalletCreditFailed event: no failure record      *)
(* carries a transient error as its reason.                                 *)
C28_TransientErrorWritesNoFailure ==
    \A i \in 1..Len(walletOutbox) :
        walletOutbox[i].eventType \in FailureEventTypes
            => walletOutbox[i].payload.reason # TransientError

(* The REFUND entry the replay of dead letter id is to create exists. *)
RefundApplied(id) ==
    ExistingEntries(dlq[id].originalPayload.senderWalletId,
                    generateRefundTransactionId(dlq[id].originalPayload.transferId)) # {}

(* A replay run of the refund leaves its transaction. *)
ReplayRunEnds(r) ==
    /\ r.handler = H_REPLAY
    /\ CopiesIn(r, applying') < CopiesIn(r, applying)

(* C29: a replay whose refund succeeds marks the entry PROCESSED with       *)
(* processedAt set and answers success = true; a replay whose refund fails  *)
(* (sender wallet missing, or unsupported topic) marks the entry FAILED,    *)
(* changes no balance and no ledger entry, and answers success = false with *)
(* the error message.                                                       *)
C29_ReplayOutcomeIsRecorded ==
    [][/\ \A id \in 1..Len(dlq) :
            /\ (dlq[id].status # DLQ_PROCESSED /\ dlq'[id].status = DLQ_PROCESSED)
                 => /\ dlq[id].originalTopic = "wallet.credit-failed"
                    /\ dlq'[id].processedAt # NULL
                    /\ response' = ReplaySuccessful
                    /\ RefundApplied(id)'
            /\ (dlq[id].originalTopic # "wallet.credit-failed" /\ dlq'[id] # dlq[id])
                 => /\ dlq'[id].status = DLQ_FAILED
                    /\ response' = ReplayFailed("Unsupported topic for replay: "
                                                 \o dlq[id].originalTopic)
                    /\ UNCHANGED <<wallets, ledger>>
       /\ \A r \in BagToSet(applying) :
            /\ (ReplayRunEnds(r) /\ ledger' # ledger)
                 => /\ dlq'[DlqIdOf(r)].status = DLQ_PROCESSED
                    /\ response' = ReplaySuccessful
            /\ (ReplayRunEnds(r) /\ ledger' = ledger)
                 => /\ dlq'[DlqIdOf(r)].status = DLQ_FAILED
                    /\ wallets' = wallets
                    /\ \E error \in ThrownErrors(r) : response' = ReplayFailed(error)
                    /\ (~storeFault /\ r.event.senderWalletId \notin DOMAIN wallets)
                         => response' = ReplayFailed("Wallet not found: "
                                                      \o r.event.senderWalletId)]_vars

(* One replayed entry is PROCESSED with its refund applied, and the replay  *)
(* of another, whose sender wallet is missing, has just failed.             *)
C29_Witness ==
    \E i, j \in 1..Len(dlq) :
        /\ dlq[i].status = DLQ_PROCESSED
        /\ dlq[i].processedAt # NULL
        /\ RefundApplied(i)
        /\ dlq[j].status = DLQ_FAILED
        /\ dlq[j].originalPayload.senderWalletId \notin DOMAIN wallets
        /\ response = ReplayFailed("Wallet not found: "
                                   \o dlq[j].originalPayload.senderWalletId)

(* The dead letters whose replay can succeed: supported topic and an        *)
(* existing sender wallet.                                                  *)
Replayable(id) ==
    /\ dlq[id].originalTopic = "wallet.credit-failed"
    /\ dlq[id].originalPayload.senderWalletId \in DOMAIN wallets

(* The number of REFUND entries of the transfer of dead letter id. *)
RefundCountOf(id) ==
    EntryCount(generateRefundTransactionId(dlq[id].originalPayload.transferId), REFUND)

(* C30: replaying the same dead letter any number of times, also after it   *)
(* was reset to PENDING, leaves at most one REFUND entry for the transfer   *)
(* and the sender's balance increased by the amount exactly once, with the  *)
(* entry PROCESSED once a replay has succeeded; the replay of an entry that *)
(* is already PROCESSED answers success and touches neither the ledger nor  *)
(* the entry.                                                               *)
C30_ReplayIsIdempotent ==
    [][/\ \A id \in 1..Len(dlq') :
            /\ RefundCountOf(id)' <= 1
            /\ Replayable(id)' =>
                 LET sender == dlq'[id].originalPayload.senderWalletId IN
                 /\ wallets'[sender] = SeedBalance[sender]
                       + dlq'[id].originalPayload.amount * RefundCountOf(id)'
                 /\ dlq'[id].status = DLQ_PROCESSED => RefundCountOf(id)' = 1
       /\ \A id \in 1..Len(dlq) :
            (Replayable(id) /\ RefundApplied(id) /\ dlq'[id] # dlq[id]
                /\ dlq'[id].status # DLQ_PENDING /\ applying' = applying)
              => dlq'[id].status = DLQ_PROCESSED /\ response' = ReplaySuccessful
       /\ (response' = AlreadyProcessed /\ response # AlreadyProcessed)
            => /\ UNCHANGED <<wallets, ledger, dlq, broker>>
               /\ \E id \in 1..Len(dlq) : dlq[id].status = DLQ_PROCESSED]_vars

(* An entry was replayed with success and replayed once more: it is         *)
(* PROCESSED, the transfer has one REFUND entry, the sender's balance rose  *)
(* once and the last replay was answered as already processed.              *)
C30_Witness ==
    \E id \in 1..Len(dlq) :
        /\ dlq[id].status = DLQ_PROCESSED
        /\ RefundCountOf(id) = 1
        /\ wallets[dlq[id].originalPayload.senderWalletId] = 2
        /\ response = AlreadyProcessed

(* Transfer t is the only row of the step that changed, and only its status *)
(* changed, from PENDING to DEBITED.                                        *)
OnlyStatusToDebited(t) ==
    /\ transfers[t].status = PENDING
    /\ transfers' = [transfers EXCEPT ![t].status = DEBITED]

(* C31: the coordinator's WalletDebited handler changes only the status of  *)
(* the matching PENDING transfer, to DEBITED, and writes no outbox record;  *)
(* the coordinator's WalletRefunded handler changes no transfer and writes  *)
(* no outbox record.                                                        *)
C31_DebitedAndRefundedHandlersFrame ==
    [][/\ TxHandleWalletDebited =>
            /\ txOutbox' = txOutbox
            /\ \/ transfers' = transfers
               \/ \E m \in broker :
                     /\ m.topic = "wallet.debited"
                     /\ m.value.transferId \in DOMAIN transfers
                     /\ OnlyStatusToDebited(m.value.transferId)
       /\ \A t \in DOMAIN transfers :
            (transfers[t].status # DEBITED /\ transfers'[t].status = DEBITED)
              => /\ OnlyStatusToDebited(t)
                 /\ txOutbox' = txOutbox
       /\ TxHandleWalletRefunded => UNCHANGED <<transfers, txOutbox>>]_vars

(* The transfer became DEBITED and the coordinator's outbox still holds the *)
(* TransferInitiated record alone, while a wallet.refunded message of the   *)
(* transfer has been emitted.                                               *)
C31_Witness ==
    \E t \in DOMAIN transfers :
        /\ transfers[t].status = DEBITED
        /\ Len(txOutbox) = 1
        /\ \E m \in broker : m.topic = "wallet.refunded" /\ m.value.transferId = t

(* The timeout scanner failed transfer t from PENDING. *)
FailedFromPending(t) ==
    /\ transfers[t].status = FAILED
    /\ transfers[t].failureReason = Some(STUCK_PENDING_REASON)

(* C32: when the timeout scanner fails a transfer from PENDING, the debit   *)
(* never happened and never happens: no DEBIT entry for the transferId      *)
(* exists at the transition and none is created afterwards.                 *)
C32_FailedFromPendingNeverDebited ==
    \A t \in DOMAIN transfers :
        FailedFromPending(t) => EntryCount(t, DEBIT) = 0

(* C33: for every transfer, a CREDIT entry on the receiver and a REFUND     *)
(* entry on the sender never both exist, also when the synthetic            *)
(* wallet.credit-failed of the timeout scanner races a credit in flight.    *)
C33_NeverCreditedAndRefunded ==
    \A t \in DOMAIN transfers :
        ~(/\ EntryCount(t, CREDIT) > 0
          /\ EntryCount(generateRefundTransactionId(t), REFUND) > 0)

(* C34: in every state where a transfer is FAILED and no event for it       *)
(* remains unprocessed, the transfer has had no net effect on any wallet:   *)
(* the receiver has no CREDIT entry for it, and the sender has either no    *)
(* DEBIT entry for it or a DEBIT entry together with a REFUND entry of the  *)
(* same amount.                                                             *)
C34_FailedTransferHasNoNetEffect ==
    \A t \in DOMAIN transfers :
        (transfers[t].status = FAILED /\ Settled(t)) =>
            /\ ~HasEntry(transfers[t].receiverWalletId, t)
            /\ \/ ~HasEntry(transfers[t].senderWalletId, t)
               \/ /\ EntryCount(t, DEBIT) = 1
                  /\ EntryCount(generateRefundTransactionId(t), REFUND) = 1
                  /\ \A d, r \in BagToSet(ledger) :
                        (/\ d.type = DEBIT /\ d.transactionId = t
                         /\ r.type = REFUND
                         /\ r.transactionId = generateRefundTransactionId(t))
                          => /\ r.amount = d.amount
                             /\ r.walletId = d.walletId

(* C35: for each transferId the wallet service writes at most one debit     *)
(* outcome: a WalletDebited record and a WalletDebitFailed record never     *)
(* both exist in its outbox for the same transfer, for every interleaving   *)
(* of duplicate or concurrent deliveries of transfer.initiated and of other *)
(* transfers changing the sender's balance.                                 *)
C35_OneDebitOutcome ==
    \A t \in DOMAIN transfers :
        \/ RowsOf(walletOutbox, t, WALLET_DEBITED) = {}
        \/ RowsOf(walletOutbox, t, WALLET_DEBIT_FAILED) = {}

(* C36: in every reachable state a transfer in COMPLETED has a DEBIT entry  *)
(* on its sender and a CREDIT entry on its receiver for its transferId and  *)
(* no REFUND entry for it.                                                  *)
C36_CompletedHasDebitAndCredit ==
    \A t \in DOMAIN transfers :
        transfers[t].status = COMPLETED =>
            /\ \E e \in BagToSet(ledger) :
                  /\ e.type = DEBIT /\ e.transactionId = t
                  /\ e.walletId = transfers[t].senderWalletId
            /\ \E e \in BagToSet(ledger) :
                  /\ e.type = CREDIT /\ e.transactionId = t
                  /\ e.walletId = transfers[t].receiverWalletId
            /\ EntryCount(generateRefundTransactionId(t), REFUND) = 0

(* C37: ledger effects follow the saga's causal order: a CREDIT entry on    *)
(* the receiver or a REFUND entry on the sender for a transfer exists only  *)
(* if the DEBIT entry on the sender for that transferId exists.             *)
C37_CreditAndRefundFollowDebit ==
    \A t \in DOMAIN transfers :
        (\/ EntryCount(t, CREDIT) > 0
         \/ EntryCount(generateRefundTransactionId(t), REFUND) > 0)
          => \E e \in BagToSet(ledger) :
                /\ e.type = DEBIT /\ e.transactionId = t
                /\ e.walletId = transfers[t].senderWalletId

(* A transfer whose credit failed was compensated: the sender holds the     *)
(* DEBIT and the REFUND entry, and no CREDIT entry exists.                  *)
C37_Witness ==
    \E t \in DOMAIN transfers :
        /\ EntryCount(t, DEBIT) = 1
        /\ EntryCount(generateRefundTransactionId(t), REFUND) = 1
        /\ EntryCount(t, CREDIT) = 0

(* C38: a dead letter in status PROCESSED never changes status again.       *)
C38_ProcessedIsFinal ==
    [][\A id \in 1..Len(dlq) :
          dlq[id].status = DLQ_PROCESSED => dlq'[id].status = DLQ_PROCESSED]_vars

(* C39: in every reachable state a transfer's failureReason is non-null if  *)
(* and only if its status is FAILED: PENDING, DEBITED and COMPLETED         *)
(* transfers carry a null failureReason, and every transition to FAILED (by *)
(* WalletDebitFailed, WalletCreditFailed or timeout) stores a reason.       *)
C39_ReasonIffFailed ==
    \A t \in DOMAIN transfers :
        (transfers[t].failureReason # NULL) <=> (transfers[t].status = FAILED)

(* A transfer failed by the timeout scanner from PENDING carries the        *)
(* scanner's reason.                                                        *)
C39_Witness ==
    \E t \in DOMAIN transfers :
        /\ transfers[t].status = FAILED
        /\ transfers[t].failureReason = Some(STUCK_PENDING_REASON)
====
